---- MODULE Spec2Model ----
(***************************************************************************)
(* The saga state machine of package saga: SagaState, its accessors and    *)
(* the transition function updateSagaState, driven by a caller that folds  *)
(* messages through updateSagaState and keeps the returned state whenever  *)
(* the message is accepted (Spec), or called once on any state (SpecAny);  *)
(* the in-memory saga log, inMemorySagaLog, called by concurrent threads   *)
(* (SpecLog); a Saga over that log, its operations called by concurrent    *)
(* threads (SpecSaga); and updateSagaState on pointers, with the objects   *)
(* it allocates and writes (SpecHeap).                                     *)
(***************************************************************************)
EXTENDS Integers, Sequences, FiniteSets, TLC

VARIABLES
    state,    \* the *SagaState the caller holds
    msg,      \* the sagaMessage of the updateSagaState call in progress (NoMsg: none)
    res,      \* the (*SagaState, error) pair that call returned (NoRes: none)
    sagas,    \* inMemorySagaLog.sagas: sagaId -> the messages logged for it
    mutex,    \* inMemorySagaLog.mutex: its writer and its readers
    thr,      \* per thread: the log method it is in, where, and its locals
    acked,    \* history: the <<sagaId, message>> pairs StartSaga or LogMessage
              \* returned nil for
    accepted, \* history: per saga, the messages StartSaga and LogMessage
              \* returned nil for since the saga's last StartSaga, in order
    sagaMutex, \* the mutex of the Saga: the thread that holds it, or "none"
    sagaPc,   \* per thread: where it is in an operation of the Saga
    sagaRet,  \* the thread, the message and the error of the operation of the
              \* Saga that returned last
    trans,    \* history: the messages the Saga advanced its state by, in order
    heap,     \* the objects allocated: SagaState structs, maps, taskData records
    hp        \* the pointer handed to updateSagaState and what its calls returned

coreVars == <<state, msg, res>>
logVars == <<sagas, mutex, thr, acked, accepted>>
sagaVars == <<sagaMutex, sagaPc, sagaRet, trans>>
heapVars == <<heap, hp>>

\* what a step of the caller of updateSagaState leaves alone
beyondCore == <<logVars, sagaVars, heapVars>>

\* what a step inside the log leaves alone when the log is called directly
beyondLog == <<coreVars, sagaVars, heapVars>>

vars == <<sagaVars, logVars, heapVars, coreVars>>

---------------------------------------------------------------------------
(* Bounds of the model *)

\* number of distinct task ids the caller uses
MaxTasks == 2

\* LogMessage is called for a saga while its log is shorter than this
MaxLogLen == 3

\* an operation of the Saga starts while the Saga has made fewer transitions
\* than this
MaxTrans == 4

TaskNames == <<"t1", "t2", "t3", "t4">>

\* the nil []byte
Nil == "nil"

TaskIds == {TaskNames[i] : i \in 1..MaxTasks}

\* the task ids whose messages come with data as well as without; the
\* messages of the other task ids carry none
DataTaskIds == {TaskNames[1], TaskNames[2]}
\* the non-nil data a message or a job may carry
Blobs == {"d1"}
Data == {Nil} \cup Blobs

\* the saga the caller works on, and the id of another saga
ThisSaga == "s1"
OtherSaga == "s2"

\* the job of the saga
ThisJob == "job"

---------------------------------------------------------------------------
(* type flag byte, and the four flags *)

TaskStarted == 1
TaskCompleted == 2
CompTaskStarted == 4
CompTaskCompleted == 8

\* flags & bit != 0, for a single-bit mask
HasFlag(flags, bit) == (flags \div bit) % 2 = 1

\* flags | bit, for a single-bit mask
FlagOr(flags, bit) == IF HasFlag(flags, bit) THEN flags ELSE flags + bit

\* a Go map read: the zero value when the key is missing
MapGet(m, key, zero) == IF key \in DOMAIN m THEN m[key] ELSE zero

\* a Go map write m[key] = value
MapPut(m, key, value) ==
    [k \in DOMAIN m \cup {key} |-> IF k = key THEN value ELSE m[k]]

EmptyMap == [k \in {} |-> 0]

\* &taskData{}
EmptyTaskData ==
    [taskStart |-> Nil, taskEnd |-> Nil, compTaskStart |-> Nil, compTaskEnd |-> Nil]

---------------------------------------------------------------------------
(* SagaState *)

initializeSagaState ==
    [sagaId        |-> "",
     job           |-> Nil,
     taskState     |-> EmptyMap,
     taskData      |-> EmptyMap,
     sagaAborted   |-> FALSE,
     sagaCompleted |-> FALSE]

IsTaskStarted(s, taskId) == HasFlag(MapGet(s.taskState, taskId, 0), TaskStarted)

IsTaskCompleted(s, taskId) == HasFlag(MapGet(s.taskState, taskId, 0), TaskCompleted)

IsCompTaskStarted(s, taskId) == HasFlag(MapGet(s.taskState, taskId, 0), CompTaskStarted)

IsCompTaskCompleted(s, taskId) ==
    HasFlag(MapGet(s.taskState, taskId, 0), CompTaskCompleted)

IsSagaAborted(s) == s.sagaAborted

IsSagaCompleted(s) == s.sagaCompleted

\* the record of taskId with the blob of msgType replaced by data
\* the data stored as taskStart whatever the message type
setBlobAlwaysTaskStart(tData, msgType, data) == [tData EXCEPT !.taskStart = data]

setBlob(tData, msgType, data) ==
    CASE msgType = "StartTask"     -> [tData EXCEPT !.taskStart = data]
      [] msgType = "EndTask"       -> [tData EXCEPT !.taskEnd = data]
      [] msgType = "StartCompTask" -> [tData EXCEPT !.compTaskStart = data]
      [] msgType = "EndCompTask"   -> [tData EXCEPT !.compTaskEnd = data]
      [] OTHER                     -> tData

addTaskData(s, taskId, msgType, data) ==
    LET tData == MapGet(s.taskData, taskId, EmptyTaskData)
    IN  [s EXCEPT !.taskData = MapPut(s.taskData, taskId, setBlob(tData, msgType, data))]

\* if msg.data != nil { state.addTaskData(...) }
addDataIfAny(s, m) ==
    IF m.data # Nil THEN addTaskData(s, m.taskId, m.msgType, m.data) ELSE s

copySagaState(s) ==
    [sagaId        |-> s.sagaId,
     job           |-> s.job,
     taskState     |-> [key \in DOMAIN s.taskState |-> s.taskState[key]],
     taskData      |-> [key \in DOMAIN s.taskData |->
                          [taskStart     |-> s.taskData[key].taskStart,
                           taskEnd       |-> s.taskData[key].taskEnd,
                           compTaskStart |-> s.taskData[key].compTaskStart,
                           compTaskEnd   |-> s.taskData[key].compTaskEnd]],
     sagaAborted   |-> s.sagaAborted,
     sagaCompleted |-> s.sagaCompleted]

---------------------------------------------------------------------------
(* errors: the prefix of the message before its colon, the rest of the     *)
(* message, and the task id the message is formatted with                  *)

NoErr == [kind |-> "nil", reason |-> "", taskId |-> ""]

Err(kind, reason, taskId) == [kind |-> kind, reason |-> reason, taskId |-> taskId]

validateSagaId(sagaId) ==
    IF sagaId = ""
    THEN Err("Invalid Saga Message", "sagaId cannot be the empty string", "")
    ELSE NoErr

\* validateTaskId letting the empty string pass
validateTaskIdAcceptsEmpty(taskId) == NoErr

validateTaskId(taskId) ==
    IF taskId = ""
    THEN Err("Invalid Saga Message", "taskId cannot be the empty string", "")
    ELSE NoErr

\* a returned (*SagaState, error) pair; the state of a rejection is nil
Accepted(s) == [state |-> s, err |-> NoErr]
Rejected(e) == [state |-> Nil, err |-> e]

\* makeSagaState that leaves the job out of the state
makeSagaStateNoJob(sagaId, job) ==
    IF validateSagaId(sagaId) # NoErr
    THEN Rejected(validateSagaId(sagaId))
    ELSE Accepted([initializeSagaState EXCEPT !.sagaId = sagaId])

makeSagaState(sagaId, job) ==
    IF validateSagaId(sagaId) # NoErr
    THEN Rejected(validateSagaId(sagaId))
    ELSE Accepted([initializeSagaState EXCEPT !.sagaId = sagaId, !.job = job])

---------------------------------------------------------------------------
(* updateSagaState, case by case of its switch.  For each case, check...   *)
(* gives the error of the first failing test of the case (NoErr when all   *)
(* pass) and apply... the state the case builds from the copy.  EndSaga    *)
(* tests the tasks in the order of a map iteration, so its error may name  *)
(* any task that fails the test.                                           *)

\* endSagaOffenders with the test of an aborted saga left out: every saga is
\* held to the forward test
endSagaOffendersForwardOnly(s) ==
    {taskId \in DOMAIN s.taskState : ~IsTaskCompleted(s, taskId)}

\* the tasks at which the loop of case EndSaga returns an error
endSagaOffenders(s) ==
    {taskId \in DOMAIN s.taskState :
        IF s.sagaAborted
        THEN ~(IsCompTaskStarted(s, taskId) /\ IsCompTaskCompleted(s, taskId))
        ELSE ~IsTaskCompleted(s, taskId)}

\* the errors case EndSaga can return; empty when it accepts
checkEndSaga(s) ==
    {Err("InvalidSagaState",
         IF s.sagaAborted
         THEN "End Saga Message cannot be applied to an aborted Saga where Task has not completed its compensating Tasks"
         ELSE "End Saga Message cannot be applied to a Saga where Task has not completed",
         taskId) : taskId \in endSagaOffenders(s)}

applyEndSaga(s) == [s EXCEPT !.sagaCompleted = TRUE]

\* checkAbortSaga without the test of a completed saga
checkAbortSagaNoCompletedTest(s) == NoErr

checkAbortSaga(s) ==
    IF IsSagaCompleted(s)
    THEN Err("InvalidSagaState", "AbortSaga Message cannot be applied to a Completed Saga", "")
    ELSE NoErr

applyAbortSaga(s) == [s EXCEPT !.sagaAborted = TRUE]

\* checkStartTask testing IsTaskStarted where the code tests IsTaskCompleted
checkStartTaskRejectsRestart(s, m) ==
    IF validateTaskId(m.taskId) # NoErr THEN validateTaskId(m.taskId)
    ELSE IF IsSagaCompleted(s)
    THEN Err("InvalidSagaState", "Cannot StartTask after Saga has been completed", "")
    ELSE IF IsSagaAborted(s)
    THEN Err("InvalidSagaState", "Cannot StartTask after Saga has been aborted", "")
    ELSE IF IsTaskStarted(s, m.taskId)
    THEN Err("InvalidSagaState", "Cannot StartTask after it has been completed", "")
    ELSE NoErr

\* checkStartTask without the test of a completed task
checkStartTaskNoTaskCompletedTest(s, m) ==
    IF validateTaskId(m.taskId) # NoErr THEN validateTaskId(m.taskId)
    ELSE IF IsSagaCompleted(s)
    THEN Err("InvalidSagaState", "Cannot StartTask after Saga has been completed", "")
    ELSE IF IsSagaAborted(s)
    THEN Err("InvalidSagaState", "Cannot StartTask after Saga has been aborted", "")
    ELSE NoErr

\* checkStartTask without the test of an aborted saga
checkStartTaskNoSagaAbortedTest(s, m) ==
    IF validateTaskId(m.taskId) # NoErr THEN validateTaskId(m.taskId)
    ELSE IF IsSagaCompleted(s)
    THEN Err("InvalidSagaState", "Cannot StartTask after Saga has been completed", "")
    ELSE IF IsTaskCompleted(s, m.taskId)
    THEN Err("InvalidSagaState", "Cannot StartTask after it has been completed", "")
    ELSE NoErr

\* checkStartTask without the test of a completed saga
checkStartTaskNoSagaCompletedTest(s, m) ==
    IF validateTaskId(m.taskId) # NoErr THEN validateTaskId(m.taskId)
    ELSE IF IsSagaAborted(s)
    THEN Err("InvalidSagaState", "Cannot StartTask after Saga has been aborted", "")
    ELSE IF IsTaskCompleted(s, m.taskId)
    THEN Err("InvalidSagaState", "Cannot StartTask after it has been completed", "")
    ELSE NoErr

checkStartTask(s, m) ==
    IF validateTaskId(m.taskId) # NoErr THEN validateTaskId(m.taskId)
    ELSE IF IsSagaCompleted(s)
    THEN Err("InvalidSagaState", "Cannot StartTask after Saga has been completed", "")
    ELSE IF IsSagaAborted(s)
    THEN Err("InvalidSagaState", "Cannot StartTask after Saga has been aborted", "")
    ELSE IF IsTaskCompleted(s, m.taskId)
    THEN Err("InvalidSagaState", "Cannot StartTask after it has been completed", "")
    ELSE NoErr

\* addTaskData first, then state.taskState[msg.taskId] = TaskStarted
applyStartTask(s, m) ==
    LET withData == addDataIfAny(s, m)
    IN  [withData EXCEPT !.taskState = MapPut(withData.taskState, m.taskId, TaskStarted)]

\* checkEndTask without the test of a preceding StartTask
checkEndTaskNoStartedTest(s, m) ==
    IF validateTaskId(m.taskId) # NoErr THEN validateTaskId(m.taskId)
    ELSE IF IsSagaCompleted(s)
    THEN Err("InvalidSagaState", "Cannot EndTask after Saga has been completed", "")
    ELSE IF IsSagaAborted(s)
    THEN Err("InvalidSagaState", "Cannot EndTask after an Abort Saga Message", "")
    ELSE NoErr

checkEndTask(s, m) ==
    IF validateTaskId(m.taskId) # NoErr THEN validateTaskId(m.taskId)
    ELSE IF IsSagaCompleted(s)
    THEN Err("InvalidSagaState", "Cannot EndTask after Saga has been completed", "")
    ELSE IF IsSagaAborted(s)
    THEN Err("InvalidSagaState", "Cannot EndTask after an Abort Saga Message", "")
    ELSE IF ~IsTaskStarted(s, m.taskId)
    THEN Err("InvalidSagaState", "Cannot have a EndTask Message Before a StartTask Message", m.taskId)
    ELSE NoErr

\* applyEndTask assigning TaskCompleted where the code ORs it in
applyEndTaskAssigns(s, m) ==
    addDataIfAny([s EXCEPT !.taskState = MapPut(s.taskState, m.taskId, TaskCompleted)], m)

\* state.taskState[msg.taskId] | TaskCompleted first, then addTaskData
applyEndTask(s, m) ==
    LET flagged == [s EXCEPT !.taskState = MapPut(s.taskState, m.taskId,
                       FlagOr(MapGet(s.taskState, m.taskId, 0), TaskCompleted))]
    IN  addDataIfAny(flagged, m)

\* checkStartCompTask without the test of an aborted saga
checkStartCompTaskNoAbortedTest(s, m) ==
    IF validateTaskId(m.taskId) # NoErr THEN validateTaskId(m.taskId)
    ELSE IF IsSagaCompleted(s)
    THEN Err("InvalidSagaState", "Cannot StartCompTask after Saga has been completed", "")
    ELSE IF ~IsTaskStarted(s, m.taskId)
    THEN Err("InvalidSagaState", "Cannot have a StartCompTask Message Before a StartTask Message", m.taskId)
    ELSE IF IsCompTaskCompleted(s, m.taskId)
    THEN Err("InvalidSagaState", "Cannot StartCompTask after it has been completed", m.taskId)
    ELSE NoErr

\* checkStartCompTask without the test of a preceding StartTask
checkStartCompTaskNoStartedTest(s, m) ==
    IF validateTaskId(m.taskId) # NoErr THEN validateTaskId(m.taskId)
    ELSE IF IsSagaCompleted(s)
    THEN Err("InvalidSagaState", "Cannot StartCompTask after Saga has been completed", "")
    ELSE IF ~IsSagaAborted(s)
    THEN Err("InvalidSagaState", "Cannot have a StartCompTask Message when Saga has not been Aborted", m.taskId)
    ELSE IF IsCompTaskCompleted(s, m.taskId)
    THEN Err("InvalidSagaState", "Cannot StartCompTask after it has been completed", m.taskId)
    ELSE NoErr

checkStartCompTask(s, m) ==
    IF validateTaskId(m.taskId) # NoErr THEN validateTaskId(m.taskId)
    ELSE IF IsSagaCompleted(s)
    THEN Err("InvalidSagaState", "Cannot StartCompTask after Saga has been completed", "")
    ELSE IF ~IsSagaAborted(s)
    THEN Err("InvalidSagaState", "Cannot have a StartCompTask Message when Saga has not been Aborted", m.taskId)
    ELSE IF ~IsTaskStarted(s, m.taskId)
    THEN Err("InvalidSagaState", "Cannot have a StartCompTask Message Before a StartTask Message", m.taskId)
    ELSE IF IsCompTaskCompleted(s, m.taskId)
    THEN Err("InvalidSagaState", "Cannot StartCompTask after it has been completed", m.taskId)
    ELSE NoErr

\* state.taskState[msg.taskId] | CompTaskStarted first, then addTaskData
applyStartCompTask(s, m) ==
    LET flagged == [s EXCEPT !.taskState = MapPut(s.taskState, m.taskId,
                       FlagOr(MapGet(s.taskState, m.taskId, 0), CompTaskStarted))]
    IN  addDataIfAny(flagged, m)

\* checkEndCompTask without the test of a preceding StartCompTask
checkEndCompTaskNoCompStartedTest(s, m) ==
    IF validateTaskId(m.taskId) # NoErr THEN validateTaskId(m.taskId)
    ELSE IF IsSagaCompleted(s)
    THEN Err("InvalidSagaState", "Cannot EndCompTask after Saga has been completed", "")
    ELSE IF ~IsSagaAborted(s)
    THEN Err("InvalidSagaState", "Cannot have a EndCompTask Message when Saga has not been Aborted", m.taskId)
    ELSE IF ~IsTaskStarted(s, m.taskId)
    THEN Err("InvalidSagaState", "Cannot have a StartCompTask Message Before a StartTask Message", m.taskId)
    ELSE NoErr

checkEndCompTask(s, m) ==
    IF validateTaskId(m.taskId) # NoErr THEN validateTaskId(m.taskId)
    ELSE IF IsSagaCompleted(s)
    THEN Err("InvalidSagaState", "Cannot EndCompTask after Saga has been completed", "")
    ELSE IF ~IsSagaAborted(s)
    THEN Err("InvalidSagaState", "Cannot have a EndCompTask Message when Saga has not been Aborted", m.taskId)
    ELSE IF ~IsTaskStarted(s, m.taskId)
    THEN Err("InvalidSagaState", "Cannot have a StartCompTask Message Before a StartTask Message", m.taskId)
    ELSE IF ~IsCompTaskStarted(s, m.taskId)
    THEN Err("InvalidSagaState", "Cannot have a EndCompTask Message Before a StartCompTaks Message", m.taskId)
    ELSE NoErr

\* addTaskData first, then state.taskState[msg.taskId] | CompTaskCompleted
applyEndCompTask(s, m) ==
    LET withData == addDataIfAny(s, m)
    IN  [withData EXCEPT !.taskState = MapPut(withData.taskState, m.taskId,
            FlagOr(MapGet(withData.taskState, m.taskId, 0), CompTaskCompleted))]

\* the pair a case returns: nil and the error, or the new state and nil
Outcome(e, s) == IF e # NoErr THEN Rejected(e) ELSE Accepted(s)

\* the identity test with StartSaga messages exempted from it
sagaIdMismatchExceptStartSaga(s, m) == m.msgType # "StartSaga" /\ m.sagaId # s.sagaId

\* msg.sagaId != state.sagaId, tested before the switch on msg.msgType
sagaIdMismatch(s, m) == m.sagaId # s.sagaId

\* the set of (state, error) pairs the call can return
updateSagaState(s, m) ==
    LET copy == copySagaState(s)
    IN  IF sagaIdMismatch(copy, m)
        THEN {Rejected(Err("InvalidSagaMessage", "sagaId & SagaMessage sagaId do not match", ""))}
        ELSE CASE m.msgType = "StartSaga" ->
                    {Rejected(Err("InvalidSagaState",
                        "Cannot apply a StartSaga Message to an already existing Saga", ""))}
               [] m.msgType = "EndSaga" ->
                    IF checkEndSaga(copy) # {}
                    THEN {Rejected(e) : e \in checkEndSaga(copy)}
                    ELSE {Accepted(applyEndSaga(copy))}
               [] m.msgType = "AbortSaga" ->
                    {Outcome(checkAbortSaga(copy), applyAbortSaga(copy))}
               [] m.msgType = "StartTask" ->
                    {Outcome(checkStartTask(copy, m), applyStartTask(copy, m))}
               [] m.msgType = "EndTask" ->
                    {Outcome(checkEndTask(copy, m), applyEndTask(copy, m))}
               [] m.msgType = "StartCompTask" ->
                    {Outcome(checkStartCompTask(copy, m), applyStartCompTask(copy, m))}
               [] m.msgType = "EndCompTask" ->
                    {Outcome(checkEndCompTask(copy, m), applyEndCompTask(copy, m))}
               [] OTHER -> {Accepted(copy)}

---------------------------------------------------------------------------
(* The messages a caller may hand to updateSagaState *)

Message(sagaId, msgType, taskId, data) ==
    [sagaId |-> sagaId, msgType |-> msgType, taskId |-> taskId, data |-> data]

TaskMsgTypes == {"StartTask", "EndTask", "StartCompTask", "EndCompTask"}
SagaMsgTypes == {"StartSaga", "EndSaga", "AbortSaga"}

\* no call made yet
NoMsg == Message("", "none", "", Nil)

\* no call made yet, so nothing returned
NoRes == [state |-> Nil, err |-> Err("none", "", "")]

\* messages of this saga: every type, every task id without data and, for
\* the ids of DataTaskIds, with data, and the task messages with the empty
\* task id
OwnMessages ==
    {Message(ThisSaga, "StartSaga", "", d) : d \in Data}
    \cup {Message(ThisSaga, "EndSaga", "", Nil), Message(ThisSaga, "AbortSaga", "", Nil)}
    \cup {Message(ThisSaga, ty, t, Nil) : ty \in TaskMsgTypes, t \in TaskIds}
    \cup {Message(ThisSaga, ty, t, d) :
             ty \in TaskMsgTypes, t \in TaskIds \cap DataTaskIds, d \in Blobs}
    \cup {Message(ThisSaga, ty, "", Nil) : ty \in TaskMsgTypes}

\* messages that carry the id of another saga, one per type
ForeignMessages ==
    {Message(OtherSaga, ty, "", Nil) : ty \in SagaMsgTypes}
    \cup {Message(OtherSaga, ty, TaskNames[1], Nil) : ty \in TaskMsgTypes}

Messages == OwnMessages \cup ForeignMessages

---------------------------------------------------------------------------
(* inMemorySagaLog.  Every method takes the mutex first and releases it    *)
(* when it returns (defer); a thread is at "idle" outside a method, at the *)
(* named statement inside one, and at "ret" when the method has returned.  *)

Threads == {"th1", "th2"}

LogSagaIds == {ThisSaga, OtherSaga}

\* the messages the threads hand to LogMessage: two of this saga, one of the
\* other
LogMessages ==
    {Message(ThisSaga, ty, TaskNames[1], Nil) : ty \in {"StartTask", "EndTask"}}
    \cup {Message(OtherSaga, "StartTask", TaskNames[1], Nil)}

\* MakeStartSagaMessage(sagaId, job)
MakeStartSagaMessage(sagaId, job) == Message(sagaId, "StartSaga", "", job)

\* errors.New("Saga: ... is not Started yet.")
NotStartedErr(sagaId) == [kind |-> "Saga", reason |-> "is not Started yet.", taskId |-> sagaId]

\* a thread outside the log's methods
IdleThread == [pc |-> "idle", op |-> "none", arg |-> NoMsg, msgs |-> <<>>,
               ret |-> <<>>, err |-> NoErr, snap |-> {}, expect |-> <<>>]

\* MakeInMemorySaga: an empty map, a free mutex
LogInit ==
    /\ sagas = EmptyMap
    /\ mutex = [writer |-> "none", readers |-> {}]
    /\ thr = [th \in Threads |-> IdleThread]
    /\ acked = {}
    /\ accepted = [id \in LogSagaIds |-> <<>>]

\* the nil pointer
NilPtr == 0

\* no pointer handed to updateSagaState, no call made
NoCalls == [in |-> NilPtr, out |-> <<>>]

\* no operation of the Saga returned yet
NoRet == [th |-> "none", msg |-> NoMsg, err |-> NoErr, retry |-> FALSE]

\* a Saga nobody is calling
SagaInit ==
    /\ sagaMutex = "none"
    /\ sagaPc = [th \in Threads |-> "idle"]
    /\ sagaRet = NoRet
    /\ trans = <<>>

\* nothing allocated, no call of updateSagaState through a pointer
HeapIdle ==
    /\ heap = <<>>
    /\ hp = NoCalls

\* a Lock() that does not wait for the mutex
canLockAlways(mu) == TRUE

\* mutex.Lock() returns: no writer and no reader holds the mutex
canLock(mu) == mu.writer = "none" /\ mu.readers = {}

\* mutex.RLock() returns: no writer holds the mutex
canRLock(mu) == mu.writer = "none"

\* the lookup with ok true for a saga that is not in the map
logLookupAlwaysOk(m, sagaId) == [msgs |-> MapGet(m, sagaId, <<>>), ok |-> TRUE]

\* msgs, ok := log.sagas[sagaId]
logLookup(m, sagaId) == [msgs |-> MapGet(m, sagaId, <<>>), ok |-> sagaId \in DOMAIN m]

\* the message put in front of the others
logAppendFirst(msgs, m) == <<m>> \o msgs

\* append(msgs, msg)
logAppend(msgs, m) == Append(msgs, m)

\* []sagaMessage{startMsg}
startSagaEntry(sagaId, job) == <<MakeStartSagaMessage(sagaId, job)>>

\* what GetMessages returns: the messages, or nil for an unknown saga
getMessagesResult(m, sagaId) ==
    IF logLookup(m, sagaId).ok THEN logLookup(m, sagaId).msgs ELSE <<>>

\* the log of the saga of m has room for m
LogRoom(m) == m.sagaId \in DOMAIN sagas => Len(sagas[m.sagaId]) < MaxLogLen

\* thread th, now in a method
InMethod(th, pc, op, arg) == [IdleThread EXCEPT !.pc = pc, !.op = op, !.arg = arg]

\* LogMessage(msg): log.mutex.Lock()
LogMessageLock(th, m) ==
    /\ thr[th].pc = "idle"
    /\ canLock(mutex)
    /\ mutex' = [mutex EXCEPT !.writer = th]
    /\ thr' = [thr EXCEPT ![th] = InMethod(th, "lookup", "LogMessage", m)]
    /\ UNCHANGED <<sagas, acked, accepted>>

\* LogMessage: msgs, ok := log.sagas[sagaId]; the saga is unknown: return the
\* error (and unlock)
LogMessageNotStarted(th) ==
    /\ thr[th].pc = "lookup"
    /\ ~logLookup(sagas, thr[th].arg.sagaId).ok
    /\ thr' = [thr EXCEPT ![th].pc = "ret",
                          ![th].err = NotStartedErr(thr[th].arg.sagaId)]
    /\ mutex' = [mutex EXCEPT !.writer = "none"]
    /\ UNCHANGED <<sagas, acked, accepted>>

\* LogMessage: msgs, ok := log.sagas[sagaId]; the saga is known
LogMessageLookup(th) ==
    /\ thr[th].pc = "lookup"
    /\ logLookup(sagas, thr[th].arg.sagaId).ok
    /\ thr' = [thr EXCEPT ![th].pc = "append",
                          ![th].msgs = logLookup(sagas, thr[th].arg.sagaId).msgs]
    /\ UNCHANGED <<sagas, mutex, acked, accepted>>

\* LogMessage: log.sagas[sagaId] = append(msgs, msg); return nil (and unlock)
LogMessageAppend(th) ==
    /\ thr[th].pc = "append"
    /\ sagas' = MapPut(sagas, thr[th].arg.sagaId, logAppend(thr[th].msgs, thr[th].arg))
    /\ thr' = [thr EXCEPT ![th].pc = "ret"]
    /\ mutex' = [mutex EXCEPT !.writer = "none"]
    /\ acked' = acked \cup {<<thr[th].arg.sagaId, thr[th].arg>>}
    /\ accepted' = [accepted EXCEPT ![thr[th].arg.sagaId] = Append(@, thr[th].arg)]

\* StartSaga(sagaId, job): log.mutex.Lock()
StartSagaLock(th, sagaId, job) ==
    /\ thr[th].pc = "idle"
    /\ canLock(mutex)
    /\ mutex' = [mutex EXCEPT !.writer = th]
    /\ thr' = [thr EXCEPT ![th] =
                 InMethod(th, "start", "StartSaga", MakeStartSagaMessage(sagaId, job))]
    /\ UNCHANGED <<sagas, acked, accepted>>

\* StartSaga: log.sagas[sagaId] = []sagaMessage{startMsg}; return nil (and
\* unlock)
StartSagaWrite(th) ==
    /\ thr[th].pc = "start"
    /\ sagas' = MapPut(sagas, thr[th].arg.sagaId,
                       startSagaEntry(thr[th].arg.sagaId, thr[th].arg.data))
    /\ thr' = [thr EXCEPT ![th].pc = "ret"]
    /\ mutex' = [mutex EXCEPT !.writer = "none"]
    /\ acked' = acked \cup {<<thr[th].arg.sagaId, thr[th].arg>>}
    /\ accepted' = [accepted EXCEPT ![thr[th].arg.sagaId] = <<thr[th].arg>>]

\* GetMessages(sagaId): log.mutex.RLock().  snap: the messages of the saga
\* that a method returned nil for before this call
GetMessagesRLock(th, sagaId) ==
    /\ thr[th].pc = "idle"
    /\ canRLock(mutex)
    /\ mutex' = [mutex EXCEPT !.readers = @ \cup {th}]
    /\ thr' = [thr EXCEPT ![th] =
                 [InMethod(th, "get", "GetMessages", Message(sagaId, "none", "", Nil))
                     EXCEPT !.snap = {p[2] : p \in {q \in acked : q[1] = sagaId}}]]
    /\ UNCHANGED <<sagas, acked, accepted>>

\* GetMessages: msgs, ok := log.sagas[sagaId]; return msgs or nil (and
\* runlock).  expect: the messages accepted for the saga up to now
GetMessagesRead(th) ==
    /\ thr[th].pc = "get"
    /\ thr' = [thr EXCEPT ![th].pc = "ret",
                          ![th].ret = getMessagesResult(sagas, thr[th].arg.sagaId),
                          ![th].expect = accepted[thr[th].arg.sagaId]]
    /\ mutex' = [mutex EXCEPT !.readers = @ \ {th}]
    /\ UNCHANGED <<sagas, acked, accepted>>

\* GetActiveSagas(): log.mutex.RLock()
GetActiveSagasRLock(th) ==
    /\ thr[th].pc = "idle"
    /\ canRLock(mutex)
    /\ mutex' = [mutex EXCEPT !.readers = @ \cup {th}]
    /\ thr' = [thr EXCEPT ![th] = InMethod(th, "keys", "GetActiveSagas", NoMsg)]
    /\ UNCHANGED <<sagas, acked, accepted>>

\* GetActiveSagas: the keys of log.sagas, in no order (and runlock)
GetActiveSagasRead(th) ==
    /\ thr[th].pc = "keys"
    /\ thr' = [thr EXCEPT ![th].pc = "ret", ![th].ret = DOMAIN sagas]
    /\ mutex' = [mutex EXCEPT !.readers = @ \ {th}]
    /\ UNCHANGED <<sagas, acked, accepted>>

\* the thread takes the returned values and is ready for its next call
LogReturn(th) ==
    /\ thr[th].pc = "ret"
    /\ thr' = [thr EXCEPT ![th] = IdleThread]
    /\ UNCHANGED <<sagas, mutex, acked, accepted>>

InitLog ==
    /\ state = initializeSagaState
    /\ msg = NoMsg
    /\ res = NoRes
    /\ LogInit
    /\ SagaInit
    /\ HeapIdle

NextLog ==
    \E th \in Threads :
        \/ (\E m \in LogMessages : LogRoom(m) /\ LogMessageLock(th, m)) /\ UNCHANGED beyondLog
        \/ LogMessageNotStarted(th) /\ UNCHANGED beyondLog
        \/ LogMessageLookup(th) /\ UNCHANGED beyondLog
        \/ LogMessageAppend(th) /\ UNCHANGED beyondLog
        \/ (\E id \in LogSagaIds : StartSagaLock(th, id, ThisJob)) /\ UNCHANGED beyondLog
        \/ StartSagaWrite(th) /\ UNCHANGED beyondLog
        \/ (\E id \in LogSagaIds : GetMessagesRLock(th, id)) /\ UNCHANGED beyondLog
        \/ GetMessagesRead(th) /\ UNCHANGED beyondLog
        \/ GetActiveSagasRLock(th) /\ UNCHANGED beyondLog
        \/ GetActiveSagasRead(th) /\ UNCHANGED beyondLog
        \/ LogReturn(th) /\ UNCHANGED beyondLog

SpecLog == InitLog /\ [][NextLog]_vars

---------------------------------------------------------------------------
(* The caller: newState, err := updateSagaState(state, msg), and then      *)
(* state = newState when err is nil; a rejected message leaves the         *)
(* caller's state as it was.                                               *)

\* the call of updateSagaState(state, m)
Call(m) ==
    /\ msg = NoMsg
    /\ msg' = m
    /\ res' \in updateSagaState(state, m)
    /\ UNCHANGED state
    /\ UNCHANGED beyondCore

\* err == nil: the caller takes the returned state
Accept ==
    /\ msg # NoMsg
    /\ res.err = NoErr
    /\ state' = res.state
    /\ msg' = NoMsg
    /\ res' = NoRes
    /\ UNCHANGED beyondCore

\* err != nil: the caller keeps its state
Reject ==
    /\ msg # NoMsg
    /\ res.err # NoErr
    /\ msg' = NoMsg
    /\ res' = NoRes
    /\ UNCHANGED state
    /\ UNCHANGED beyondCore

\* a saga freshly made by makeSagaState
Init ==
    /\ state = makeSagaState(ThisSaga, ThisJob).state
    /\ msg = NoMsg
    /\ res = NoRes
    /\ LogInit
    /\ SagaInit
    /\ HeapIdle

Next ==
    \/ \E m \in Messages : Call(m)
    \/ Accept
    \/ Reject

Spec == Init /\ [][Next]_vars

---------------------------------------------------------------------------
(* updateSagaState as a function of its arguments: one call on any         *)
(* SagaState of this saga, whether a sequence of messages leads to it or   *)
(* not.                                                                    *)

\* any flag byte over the four flags, for any set of tasks
AnyTaskStates ==
    UNION {[ids -> 0..15] : ids \in SUBSET TaskIds}

\* no task data at all, or start data for every task id
AnyTaskData ==
    {EmptyMap, [t \in TaskIds |-> [EmptyTaskData EXCEPT !.taskStart = "d1"]]}

AnyStates ==
    [sagaId        : {ThisSaga},
     job           : {ThisJob},
     taskState     : AnyTaskStates,
     taskData      : AnyTaskData,
     sagaAborted   : BOOLEAN,
     sagaCompleted : BOOLEAN]

InitAny ==
    /\ state \in AnyStates
    /\ msg = NoMsg
    /\ res = NoRes
    /\ LogInit
    /\ SagaInit
    /\ HeapIdle

NextAny == \E m \in Messages : Call(m)

SpecAny == InitAny /\ [][NextAny]_vars

---------------------------------------------------------------------------
(* The Saga: one saga made by MakeSaga over the in-memory log, its cached  *)
(* state in `state`, its operations called by concurrent threads.  An      *)
(* operation holds the mutex of the Saga from its first statement to its   *)
(* return: it makes its message, calls updateSagaState on the cached       *)
(* state, on acceptance calls LogMessage of the log, and takes the new     *)
(* state when the log returned nil.                                        *)

\* the task each thread works on
OwnTask == [th \in Threads |-> IF th = "th1" THEN TaskNames[1] ELSE TaskNames[2]]

\* the messages of the six operations, as thread th calls them: StartTask
\* with data, the others without
SagaOps(th) ==
    {Message(ThisSaga, ty, OwnTask[th], Nil) : ty \in TaskMsgTypes \ {"StartTask"}}
    \cup {Message(ThisSaga, "StartTask", OwnTask[th], d) : d \in Blobs}
    \cup {Message(ThisSaga, "AbortSaga", "", Nil), Message(ThisSaga, "EndSaga", "", Nil)}

\* the error of a log that could not write
LogErr == [kind |-> "LogError", reason |-> "write failed", taskId |-> ""]

\* the state the Saga keeps after LogMessage returned err, always the new one
stateAfterLogAlwaysNew(err, old, new) == new

\* the state the Saga keeps after LogMessage returned err
stateAfterLog(err, old, new) == IF err = NoErr THEN new ELSE old

\* replaying msgs from state s: updateSagaState message by message, stopping
\* at the first rejection
RECURSIVE replay(_, _)
replay(s, msgs) ==
    IF msgs = <<>> THEN {Accepted(s)}
    ELSE UNION {IF r.err = NoErr THEN replay(r.state, Tail(msgs)) ELSE {r} :
                   r \in updateSagaState(s, Head(msgs))}

\* the state recovery starts from: the empty state with the sagaId and the job
\* of the StartSaga message
recoverStart(m) == [initializeSagaState EXCEPT !.sagaId = m.sagaId, !.job = m.data]

\* recovery from a sequence of messages: the first must be StartSaga, the rest
\* are replayed
recoverFrom(msgs) ==
    IF msgs = <<>> \/ Head(msgs).msgType # "StartSaga"
    THEN {Rejected(Err("RecoveryError", "no StartSaga", ""))}
    ELSE replay(recoverStart(Head(msgs)), Tail(msgs))

\* RecoverSagaState(sagaId): recovery from GetMessages(sagaId)
RecoverSagaState(log, sagaId) == recoverFrom(getMessagesResult(log, sagaId))

\* MakeSaga(ThisSaga, ThisJob) has returned: the state made, the saga started
\* in the log
InitSaga ==
    /\ state = makeSagaState(ThisSaga, ThisJob).state
    /\ msg = NoMsg
    /\ res = NoRes
    /\ sagas = MapPut(EmptyMap, ThisSaga, startSagaEntry(ThisSaga, ThisJob))
    /\ mutex = [writer |-> "none", readers |-> {}]
    /\ thr = [th \in Threads |-> IdleThread]
    /\ acked = {<<ThisSaga, MakeStartSagaMessage(ThisSaga, ThisJob)>>}
    /\ accepted = [id \in LogSagaIds |->
                     IF id = ThisSaga THEN startSagaEntry(ThisSaga, ThisJob) ELSE <<>>]
    /\ SagaInit
    /\ HeapIdle

\* an operation: lock the mutex of the Saga, make the message
SagaLock(th, m) ==
    /\ sagaPc[th] = "idle"
    /\ sagaMutex = "none"
    /\ sagaMutex' = th
    /\ sagaPc' = [sagaPc EXCEPT ![th] = "update"]
    /\ msg' = m
    /\ UNCHANGED <<state, res, logVars, sagaRet, trans>>
    /\ UNCHANGED heapVars

\* updateSagaState(state, msg) accepts
SagaUpdateAccepted(th) ==
    /\ sagaPc[th] = "update"
    /\ \E r \in updateSagaState(state, msg) :
          /\ r.err = NoErr
          /\ res' = r
    /\ sagaPc' = [sagaPc EXCEPT ![th] = "log"]
    /\ UNCHANGED <<state, msg, logVars, sagaMutex, sagaRet, trans>>
    /\ UNCHANGED heapVars

\* updateSagaState(state, msg) rejects: return the error (and unlock)
SagaUpdateRejected(th) ==
    /\ sagaPc[th] = "update"
    /\ \E r \in updateSagaState(state, msg) :
          /\ r.err # NoErr
          /\ sagaRet' = [th |-> th, msg |-> msg, err |-> r.err, retry |-> FALSE]
    /\ sagaPc' = [sagaPc EXCEPT ![th] = "idle"]
    /\ sagaMutex' = "none"
    /\ msg' = NoMsg
    /\ UNCHANGED <<state, res, logVars, trans>>
    /\ UNCHANGED heapVars

\* log.LogMessage(msg): the call
SagaLogMessage(th) ==
    /\ sagaPc[th] = "log"
    /\ LogMessageLock(th, msg)
    /\ sagaPc' = [sagaPc EXCEPT ![th] = "logging"]
    /\ UNCHANGED <<coreVars, sagaMutex, sagaRet, trans>>
    /\ UNCHANGED heapVars

\* a log that cannot write returns its error (and unlocks)
LogMessageError(th) ==
    /\ thr[th].pc = "lookup"
    /\ thr' = [thr EXCEPT ![th].pc = "ret", ![th].err = LogErr]
    /\ mutex' = [mutex EXCEPT !.writer = "none"]
    /\ UNCHANGED <<sagas, acked, accepted>>

\* log.LogMessage has returned: on nil the new state becomes the state of the
\* Saga, on an error the state stays; return the error (and unlock)
SagaLogReturned(th) ==
    /\ sagaPc[th] = "logging"
    /\ thr[th].pc = "ret"
    /\ state' = stateAfterLog(thr[th].err, state, res.state)
    /\ trans' = IF thr[th].err = NoErr THEN Append(trans, msg) ELSE trans
    /\ sagaRet' = [th |-> th, msg |-> msg, err |-> thr[th].err,
                   retry |-> /\ thr[th].err = NoErr
                             /\ sagaRet = [th |-> th, msg |-> msg, err |-> LogErr,
                                           retry |-> FALSE]]
    /\ thr' = [thr EXCEPT ![th] = IdleThread]
    /\ sagaPc' = [sagaPc EXCEPT ![th] = "idle"]
    /\ sagaMutex' = "none"
    /\ msg' = NoMsg
    /\ res' = NoRes
    /\ UNCHANGED <<sagas, mutex, acked, accepted>>
    /\ UNCHANGED heapVars

NextSaga ==
    \E th \in Threads :
        \/ \E m \in SagaOps(th) : Len(trans) < MaxTrans /\ SagaLock(th, m)
        \/ SagaUpdateAccepted(th)
        \/ SagaUpdateRejected(th)
        \/ SagaLogMessage(th)
        \/ LogMessageLookup(th) /\ UNCHANGED beyondLog
        \/ LogMessageAppend(th) /\ UNCHANGED beyondLog
        \/ LogMessageError(th) /\ UNCHANGED beyondLog
        \/ SagaLogReturned(th)

SpecSaga == InitSaga /\ [][NextSaga]_vars

---------------------------------------------------------------------------
(* updateSagaState on pointers.  A *SagaState points to a struct whose     *)
(* taskState and taskData fields are maps (references) and whose taskData  *)
(* map holds pointers to taskData records; the heap is the sequence of     *)
(* the objects allocated so far and an address is an index into it.  The   *)
(* byte slices (job, the data of a task) are never written through, and    *)
(* are values here.                                                        *)

Obj(k, v) == [k |-> k, v |-> v]

\* the elements of a set, in some order
RECURSIVE setToSeq(_)
setToSeq(S) ==
    IF S = {} THEN <<>>
    ELSE LET x == CHOOSE y \in S : TRUE IN <<x>> \o setToSeq(S \ {x})

\* where x is in seq
posOf(seq, x) == CHOOSE i \in 1..Len(seq) : seq[i] = x

\* the SagaState value behind pointer p: the struct, the contents of its maps
\* and of the records its taskData map points to
load(h, p) ==
    LET st == h[p].v
        td == h[st.taskData].v
    IN  [sagaId        |-> st.sagaId,
         job           |-> st.job,
         taskState     |-> h[st.taskState].v,
         taskData      |-> [key \in DOMAIN td |-> h[td[key]].v],
         sagaAborted   |-> st.sagaAborted,
         sagaCompleted |-> st.sagaCompleted]

\* &SagaState{...} with fresh maps and a fresh record per task with data,
\* holding the value s: the struct, the taskState map, the taskData map, the
\* records
allocState(h, s) ==
    LET n    == Len(h)
        keys == setToSeq(DOMAIN s.taskData)
    IN  [ptr  |-> n + 1,
         heap |-> h \o <<Obj("SagaState",
                             [sagaId        |-> s.sagaId,
                              job           |-> s.job,
                              taskState     |-> n + 2,
                              taskData      |-> n + 3,
                              sagaAborted   |-> s.sagaAborted,
                              sagaCompleted |-> s.sagaCompleted]),
                         Obj("taskState", s.taskState),
                         Obj("taskDataMap",
                             [key \in DOMAIN s.taskData |-> n + 3 + posOf(keys, key)])>>
                   \o [i \in 1..Len(keys) |-> Obj("taskData", s.taskData[keys[i]])]]

\* a copy that has its own struct and maps but whose taskData map holds the
\* pointers of the input's records
copySagaStateSharingData(h, p) ==
    LET n  == Len(h)
        st == h[p].v
    IN  [ptr  |-> n + 1,
         heap |-> h \o <<Obj("SagaState",
                             [st EXCEPT !.taskState = n + 2, !.taskData = n + 3]),
                         Obj("taskState", h[st.taskState].v),
                         Obj("taskDataMap", h[st.taskData].v)>>]

\* copySagaState(s) on pointers: a new struct, a new taskState map with the
\* entries of the input's, a new taskData map with a new record per entry
copySagaStateHeap(h, p) == allocState(h, copySagaState(load(h, p)))

\* the writes of updateSagaState through pointer p that bring the state behind
\* it to the value v: the fields of the struct, the entries of its taskState
\* map, the fields of the records its taskData map points to, and for a task
\* without a record a new record put in the map (addTaskData)
store(h, p, v) ==
    LET st      == h[p].v
        td      == h[st.taskData].v
        newKeys == setToSeq(DOMAIN v.taskData \ DOMAIN td)
        td2     == [key \in DOMAIN v.taskData \cup DOMAIN td |->
                      IF key \in DOMAIN td THEN td[key]
                      ELSE Len(h) + posOf(newKeys, key)]
        written == [a \in 1..Len(h) |->
                      IF a = p
                      THEN Obj("SagaState",
                               [st EXCEPT !.sagaId = v.sagaId, !.job = v.job,
                                          !.sagaAborted = v.sagaAborted,
                                          !.sagaCompleted = v.sagaCompleted])
                      ELSE IF a = st.taskState THEN Obj("taskState", v.taskState)
                      ELSE IF a = st.taskData THEN Obj("taskDataMap", td2)
                      ELSE IF \E key \in DOMAIN td \cap DOMAIN v.taskData : td[key] = a
                      THEN Obj("taskData",
                               v.taskData[CHOOSE key \in DOMAIN td \cap DOMAIN v.taskData :
                                             td[key] = a])
                      ELSE h[a]]
    IN  written \o [i \in 1..Len(newKeys) |-> Obj("taskData", v.taskData[newKeys[i]])]

\* updateSagaState(s, msg) on pointers: the copy, then the checks and the
\* writes of the case of msg on the copy; returns the copy, or nil and the
\* error.  The set of the (heap, pointer, error) outcomes the call can have
updateSagaStateHeap(h, p, m) ==
    LET c == copySagaStateHeap(h, p)
    IN  {IF r.err = NoErr
         THEN [heap |-> store(c.heap, c.ptr, r.state), ptr |-> c.ptr, err |-> NoErr]
         ELSE [heap |-> c.heap, ptr |-> NilPtr, err |-> r.err] :
            r \in updateSagaState(load(c.heap, c.ptr), m)}

\* the states handed to updateSagaState: tasks started or completed, with or
\* without a record of data for the first task
HeapTaskStates ==
    UNION {[ids -> {TaskStarted, TaskStarted + TaskCompleted}] : ids \in SUBSET TaskIds}

HeapTaskData ==
    {EmptyMap, [t \in {TaskNames[1]} |-> [EmptyTaskData EXCEPT !.taskStart = "d1"]]}

HeapStates ==
    [sagaId        : {ThisSaga},
     job           : {ThisJob},
     taskState     : HeapTaskStates,
     taskData      : HeapTaskData,
     sagaAborted   : BOOLEAN,
     sagaCompleted : BOOLEAN]

\* a SagaState on the heap, its value kept in `state`, and a pointer to it
InitHeap ==
    /\ state \in HeapStates
    /\ msg = NoMsg
    /\ res = NoRes
    /\ LogInit
    /\ SagaInit
    /\ heap = allocState(<<>>, state).heap
    /\ hp = [in |-> allocState(<<>>, state).ptr, out |-> <<>>]

\* newState, err := updateSagaState(s, m)
HeapCall(m) ==
    /\ hp.out = <<>>
    /\ msg' = m
    /\ \E o \in updateSagaStateHeap(heap, hp.in, m) :
          /\ heap' = o.heap
          /\ hp' = [hp EXCEPT !.out = <<[ptr |-> o.ptr, err |-> o.err]>>]
    /\ UNCHANGED <<state, res, logVars, sagaVars>>

\* the same call once more, with the same pointer and the same message
HeapCallAgain ==
    /\ Len(hp.out) = 1
    /\ \E o \in updateSagaStateHeap(heap, hp.in, msg) :
          /\ heap' = o.heap
          /\ hp' = [hp EXCEPT !.out = Append(@, [ptr |-> o.ptr, err |-> o.err])]
    /\ UNCHANGED <<coreVars, logVars, sagaVars>>

NextHeap ==
    \/ \E m \in OwnMessages : HeapCall(m)
    \/ HeapCallAgain

SpecHeap == InitHeap /\ [][NextHeap]_vars

---------------------------------------------------------------------------
(* The shape of the state: a SagaState, and the call in progress if any *)

SagaStates ==
    [sagaId        : {ThisSaga},
     job           : Data \cup {ThisJob},
     taskState     : UNION {[ids -> 0..15] : ids \in SUBSET TaskIds},
     taskData      : UNION {[ids -> [taskStart : Data, taskEnd : Data,
                                     compTaskStart : Data, compTaskEnd : Data]] :
                            ids \in SUBSET TaskIds},
     sagaAborted   : BOOLEAN,
     sagaCompleted : BOOLEAN]

TypeOK ==
    /\ state \in SagaStates
    /\ msg \in Messages \cup {NoMsg}
    /\ msg = NoMsg <=> res.err = NoRes.err
    /\ res.err = NoErr => res.state \in SagaStates

---------------------------------------------------------------------------
(* What the properties below read off a state of the model *)

\* flag bit is set for task t in SagaState s
Flag(s, t, bit) == t \in DOMAIN s.taskState /\ (s.taskState[t] \div bit) % 2 = 1

\* a call is in progress with a message of type ty that carries the saga's id
SagaCall(ty) == msg.msgType = ty /\ msg.sagaId = state.sagaId

\* the same for a task message with a non-empty task id
TaskCall(ty) == SagaCall(ty) /\ msg.taskId # ""

\* the call in progress returned a nil error
IsAccepted == res.err = NoErr

---------------------------------------------------------------------------
(* The transition matrix, cell by cell, over any SagaState (SpecAny) *)

\* C1: a StartTask(t) with the saga's id and a non-empty t is accepted exactly
\* when the saga is neither completed nor aborted and TaskCompleted is not set
\* for t (so also when t is started already), and then TaskStarted is set for
\* t in the returned state.
C1_StartTaskCell ==
    TaskCall("StartTask") =>
        /\ IsAccepted <=> /\ ~state.sagaCompleted
                          /\ ~state.sagaAborted
                          /\ ~Flag(state, msg.taskId, TaskCompleted)
        /\ IsAccepted => Flag(res.state, msg.taskId, TaskStarted)

\* a StartTask for a task that is started and not completed was accepted
C1_Witness ==
    /\ TaskCall("StartTask")
    /\ Flag(state, msg.taskId, TaskStarted)
    /\ ~Flag(state, msg.taskId, TaskCompleted)
    /\ IsAccepted
    /\ Flag(res.state, msg.taskId, TaskStarted)

\* C2: an EndTask(t) with the saga's id and a non-empty t is accepted exactly
\* when the saga is neither completed nor aborted and TaskStarted is set for t;
\* for a task never started it is rejected as InvalidSagaState; on acceptance
\* TaskCompleted is set for t and TaskStarted stays set.
C2_EndTaskCell ==
    TaskCall("EndTask") =>
        /\ IsAccepted <=> /\ ~state.sagaCompleted
                          /\ ~state.sagaAborted
                          /\ Flag(state, msg.taskId, TaskStarted)
        /\ ~Flag(state, msg.taskId, TaskStarted) => res.err.kind = "InvalidSagaState"
        /\ IsAccepted => /\ Flag(res.state, msg.taskId, TaskCompleted)
                         /\ Flag(res.state, msg.taskId, TaskStarted)

\* an EndTask for a task that no StartTask ever named was rejected
C2_Witness ==
    /\ TaskCall("EndTask")
    /\ msg.taskId \notin DOMAIN state.taskState
    /\ ~state.sagaCompleted
    /\ ~state.sagaAborted
    /\ res.err.kind = "InvalidSagaState"

\* C3: a StartCompTask(t) with the saga's id and a non-empty t is accepted
\* exactly when the saga is not completed, is aborted, TaskStarted is set for t
\* and CompTaskCompleted is not; in a saga that is not aborted it is always
\* rejected; on acceptance CompTaskStarted is set for t.
C3_StartCompTaskCell ==
    TaskCall("StartCompTask") =>
        /\ IsAccepted <=> /\ ~state.sagaCompleted
                          /\ state.sagaAborted
                          /\ Flag(state, msg.taskId, TaskStarted)
                          /\ ~Flag(state, msg.taskId, CompTaskCompleted)
        /\ ~state.sagaAborted => ~IsAccepted
        /\ IsAccepted => Flag(res.state, msg.taskId, CompTaskStarted)

\* a StartCompTask for a started and completed task of a saga that is not
\* aborted was rejected
C3_Witness ==
    /\ TaskCall("StartCompTask")
    /\ ~state.sagaAborted
    /\ ~state.sagaCompleted
    /\ Flag(state, msg.taskId, TaskStarted)
    /\ Flag(state, msg.taskId, TaskCompleted)
    /\ ~IsAccepted

\* C4: an EndCompTask(t) with the saga's id and a non-empty t is accepted
\* exactly when the saga is not completed, is aborted, and TaskStarted and
\* CompTaskStarted are set for t; on acceptance CompTaskCompleted is set for t.
C4_EndCompTaskCell ==
    TaskCall("EndCompTask") =>
        /\ IsAccepted <=> /\ ~state.sagaCompleted
                          /\ state.sagaAborted
                          /\ Flag(state, msg.taskId, TaskStarted)
                          /\ Flag(state, msg.taskId, CompTaskStarted)
        /\ IsAccepted => Flag(res.state, msg.taskId, CompTaskCompleted)

\* an EndCompTask was accepted and set CompTaskCompleted, which was not set
C4_Witness ==
    /\ TaskCall("EndCompTask")
    /\ IsAccepted
    /\ ~Flag(state, msg.taskId, CompTaskCompleted)
    /\ Flag(res.state, msg.taskId, CompTaskCompleted)

\* C5: an EndSaga with the saga's id is accepted exactly when, in an aborted
\* saga, every task of taskState has CompTaskStarted and CompTaskCompleted set
\* and, in a saga that is not aborted, every task has TaskCompleted set; on
\* acceptance the returned state is the given one with sagaCompleted true.
C5_EndSagaCell ==
    SagaCall("EndSaga") =>
        /\ IsAccepted <=>
              IF state.sagaAborted
              THEN \A t \in DOMAIN state.taskState :
                      Flag(state, t, CompTaskStarted) /\ Flag(state, t, CompTaskCompleted)
              ELSE \A t \in DOMAIN state.taskState : Flag(state, t, TaskCompleted)
        /\ IsAccepted => res.state = [state EXCEPT !.sagaCompleted = TRUE]

\* an EndSaga was accepted in an aborted saga with tasks, not completed before
C5_Witness ==
    /\ SagaCall("EndSaga")
    /\ state.sagaAborted
    /\ ~state.sagaCompleted
    /\ DOMAIN state.taskState # {}
    /\ IsAccepted
    /\ res.state.sagaCompleted

\* C6: an AbortSaga with the saga's id is accepted exactly when the saga is not
\* completed, and rejected as InvalidSagaState when it is; on acceptance the
\* returned state is the given one with sagaAborted true.
C6_AbortSagaCell ==
    SagaCall("AbortSaga") =>
        /\ IsAccepted <=> ~state.sagaCompleted
        /\ state.sagaCompleted => res.err.kind = "InvalidSagaState"
        /\ IsAccepted => res.state = [state EXCEPT !.sagaAborted = TRUE]

\* an AbortSaga was accepted in a saga with tasks and task data
C6_Witness ==
    /\ SagaCall("AbortSaga")
    /\ ~state.sagaAborted
    /\ DOMAIN state.taskState # {}
    /\ DOMAIN state.taskData # {}
    /\ IsAccepted
    /\ res.state.sagaAborted

---------------------------------------------------------------------------
(* The states a saga made by makeSagaState reaches by accepted messages    *)
(* (Spec)                                                                  *)

FlagBits == {TaskStarted, TaskCompleted, CompTaskStarted, CompTaskCompleted}

\* the flag bytes on the legal paths of a task
LegalFlags ==
    {TaskStarted,
     TaskStarted + TaskCompleted,
     TaskStarted + CompTaskStarted,
     TaskStarted + TaskCompleted + CompTaskStarted,
     TaskStarted + CompTaskStarted + CompTaskCompleted,
     TaskStarted + TaskCompleted + CompTaskStarted + CompTaskCompleted}

\* C7 (P1, monotonicity): when a message is accepted in a reachable state,
\* every flag set for a task in that state is set in the returned state, and
\* sagaAborted and sagaCompleted do not go from true to false.
C7_Monotonic ==
    (msg # NoMsg /\ IsAccepted) =>
        /\ \A t \in DOMAIN state.taskState : \A bit \in FlagBits :
              Flag(state, t, bit) => Flag(res.state, t, bit)
        /\ state.sagaAborted => res.state.sagaAborted
        /\ state.sagaCompleted => res.state.sagaCompleted

\* a StartTask, which assigns the flag byte, was accepted for a task that is
\* started, next to a task that is started and completed
C7_Witness ==
    /\ TaskCall("StartTask")
    /\ IsAccepted
    /\ msg.taskId \in DOMAIN state.taskState
    /\ state.taskState[msg.taskId] = TaskStarted
    /\ \E t \in DOMAIN state.taskState : Flag(state, t, TaskCompleted)
    /\ res.state.taskState[msg.taskId] = TaskStarted

\* C8: in every reachable state, a task with CompTaskStarted set belongs to an
\* aborted saga and has TaskStarted set.
C8_CompStartedImplies ==
    \A t \in DOMAIN state.taskState :
        Flag(state, t, CompTaskStarted) =>
            state.sagaAborted /\ Flag(state, t, TaskStarted)

\* a task has CompTaskStarted set
C8_Witness ==
    \E t \in DOMAIN state.taskState :
        /\ Flag(state, t, CompTaskStarted)
        /\ ~Flag(state, t, TaskCompleted)

\* C9: in every reachable state, the flag byte of every task of taskState is
\* on a legal path, so that TaskCompleted implies TaskStarted and
\* CompTaskCompleted implies CompTaskStarted.
C9_LegalFlagSets ==
    \A t \in DOMAIN state.taskState :
        /\ state.taskState[t] \in LegalFlags
        /\ Flag(state, t, TaskCompleted) => Flag(state, t, TaskStarted)
        /\ Flag(state, t, CompTaskCompleted) => Flag(state, t, CompTaskStarted)

\* one task was compensated without being completed, another after it was
C9_Witness ==
    \E t, u \in DOMAIN state.taskState :
        /\ state.taskState[t] = TaskStarted + CompTaskStarted + CompTaskCompleted
        /\ state.taskState[u] =
              TaskStarted + TaskCompleted + CompTaskStarted + CompTaskCompleted

\* C10: in every reachable state of a completed saga, every task of taskState
\* has TaskCompleted set when the saga is not aborted and CompTaskCompleted set
\* when it is.
C10_CompletedSaga ==
    state.sagaCompleted =>
        IF state.sagaAborted
        THEN \A t \in DOMAIN state.taskState : Flag(state, t, CompTaskCompleted)
        ELSE \A t \in DOMAIN state.taskState : Flag(state, t, TaskCompleted)

\* an aborted saga with a task is completed, and a StartTask for a new task
\* was then tried and rejected
C10_Witness ==
    /\ state.sagaCompleted
    /\ state.sagaAborted
    /\ DOMAIN state.taskState # {}
    /\ TaskCall("StartTask")
    /\ msg.taskId \notin DOMAIN state.taskState
    /\ ~IsAccepted

---------------------------------------------------------------------------
(* Messages that updateSagaState rejects before its transition matrix *)

StartSagaRejection ==
    Err("InvalidSagaState", "Cannot apply a StartSaga Message to an already existing Saga", "")

SagaIdRejection ==
    Err("InvalidSagaMessage", "sagaId & SagaMessage sagaId do not match", "")

EmptyTaskIdRejection ==
    Err("Invalid Saga Message", "taskId cannot be the empty string", "")

\* C19 as stated: a StartSaga message applied to an initialized state is
\* rejected as InvalidSagaState "Cannot apply a StartSaga Message to an already
\* existing Saga" whatever sagaId it carries.
C19_StartSagaWhateverId ==
    msg.msgType = "StartSaga" => res.err = StartSagaRejection

\* C19 as amended: a StartSaga message applied to an initialized state is
\* always rejected: with the InvalidSagaState reason "Cannot apply a StartSaga
\* Message to an already existing Saga" when it carries the state's sagaId, and
\* as an InvalidSagaMessage sagaId mismatch when it carries another one (the
\* identity test comes first and applies to StartSaga messages too).
C19_StartSagaRejected ==
    msg.msgType = "StartSaga" =>
        /\ ~IsAccepted
        /\ msg.sagaId = state.sagaId => res.err = StartSagaRejection
        /\ msg.sagaId # state.sagaId => res.err = SagaIdRejection

\* a StartSaga message with the id of another saga was rejected as a sagaId
\* mismatch
C19_Witness ==
    /\ msg.msgType = "StartSaga"
    /\ msg.sagaId # state.sagaId
    /\ state.sagaId # ""
    /\ res.err = SagaIdRejection

\* C20: a task message with the saga's id and the empty task id is rejected
\* with "taskId cannot be the empty string" in every reachable state, completed
\* and aborted ones included, and the empty string is never a key of taskState
\* or taskData.
C20_EmptyTaskId ==
    /\ (msg.msgType \in TaskMsgTypes /\ msg.sagaId = state.sagaId /\ msg.taskId = "")
          => res.err = EmptyTaskIdRejection
    /\ "" \notin DOMAIN state.taskState
    /\ "" \notin DOMAIN state.taskData
    /\ IsAccepted => "" \notin DOMAIN res.state.taskState \cup DOMAIN res.state.taskData

\* a task message with the empty task id was rejected for it in a saga that is
\* aborted and completed
C20_Witness ==
    /\ msg.msgType \in TaskMsgTypes
    /\ msg.sagaId = state.sagaId
    /\ msg.taskId = ""
    /\ state.sagaCompleted
    /\ state.sagaAborted
    /\ res.err = EmptyTaskIdRejection

---------------------------------------------------------------------------
(* The in-memory log under concurrent callers (SpecLog) *)

\* the elements of a sequence
Range(seq) == {seq[i] : i \in 1..Len(seq)}

\* thread th has returned from method op
Returned(th, op) == thr[th].pc = "ret" /\ thr[th].op = op

\* no StartSaga has returned nil for saga id
NeverStarted(id) == \A p \in acked : ~(p[1] = id /\ p[2].msgType = "StartSaga")

\* C16: once StartSaga or LogMessage has returned nil for a message of a saga,
\* every GetMessages of that saga called afterwards returns a sequence that
\* holds the message, whatever log operations happen in between.
C16_Durable ==
    \A th \in Threads :
        Returned(th, "GetMessages") => thr[th].snap \subseteq Range(thr[th].ret)

\* C17: a LogMessage for a saga that no StartSaga was ever recorded for returns
\* the error and leaves the whole map of the log as it was: no entry for that
\* saga (GetMessages gives the empty sequence, the keys GetActiveSagas returns
\* do not hold it), the other sagas untouched.
C17_LogMessageUnstarted ==
    [][\A th \in Threads :
          (/\ thr[th].pc = "lookup"
           /\ NeverStarted(thr[th].arg.sagaId)
           /\ thr'[th] # thr[th])
          => /\ thr'[th].pc = "ret"
             /\ thr'[th].err = NotStartedErr(thr[th].arg.sagaId)
             /\ sagas' = sagas
             /\ getMessagesResult(sagas', thr[th].arg.sagaId) = <<>>
             /\ thr[th].arg.sagaId \notin DOMAIN sagas']_vars

\* a LogMessage for a saga never started has returned the error, the saga has
\* no entry and the other saga has its messages
C17_Witness ==
    \E th \in Threads : \E id \in DOMAIN sagas :
        /\ Returned(th, "LogMessage")
        /\ thr[th].err = NotStartedErr(thr[th].arg.sagaId)
        /\ thr[th].arg.sagaId \notin DOMAIN sagas
        /\ Len(sagas[id]) > 1

\* C18: GetMessages returns the StartSaga message of the saga's last StartSaga
\* followed by exactly the messages LogMessage returned nil for since, in that
\* order, also when the callers of LogMessage are concurrent: the log of each
\* saga is that sequence at every moment, and an unknown saga gives the empty
\* sequence.
C18_AppendOrder ==
    /\ \A id \in LogSagaIds :
          /\ id \in DOMAIN sagas => sagas[id] = accepted[id]
          /\ id \notin DOMAIN sagas => accepted[id] = <<>>
    /\ \A th \in Threads :
          Returned(th, "GetMessages") =>
              /\ thr[th].ret = thr[th].expect
              /\ thr[th].ret # <<>> => thr[th].ret[1].msgType = "StartSaga"

\* GetMessages has returned a StartSaga message and two logged messages while
\* the other thread is inside LogMessage
C18_Witness ==
    \E th, other \in Threads :
        /\ Returned(th, "GetMessages")
        /\ Len(thr[th].ret) = 3
        /\ thr[th].ret[2] # thr[th].ret[3]
        /\ thr[other].op = "LogMessage"
        /\ thr[other].pc = "append"

---------------------------------------------------------------------------
(* The Saga over the in-memory log (SpecSaga) *)

\* the StartSaga message MakeSaga logged
StartMsg == MakeStartSagaMessage(ThisSaga, ThisJob)

\* no operation of the Saga is in progress
Quiescent == sagaMutex = "none"

\* every outcome of a recovery is the state s, with no error
RecoversTo(outcomes, s) == \A r \in outcomes : r.err = NoErr /\ r.state = s

\* C12: the messages the Saga accepted one by one from its initial state,
\* behind the StartSaga message, form a log from which recovery accepts every
\* message and gives a state equal to the state the Saga computed going
\* forward, in sagaId, job, taskState, taskData, sagaAborted and sagaCompleted.
C12_ReplayDeterminism == RecoversTo(recoverFrom(<<StartMsg>> \o trans), state)

\* the Saga went through four transitions, with task data, to a completed
\* task and a state that is not the initial one
C12_Witness ==
    /\ Len(trans) = 4
    /\ \E t \in DOMAIN state.taskState :
          /\ IsTaskCompleted(state, t)
          /\ t \in DOMAIN state.taskData
          /\ state.taskData[t].taskStart = "d1"
    /\ state.sagaAborted

\* C13: whenever no operation of the Saga is in progress, the log of the saga
\* is the StartSaga message followed by the messages of the transitions of the
\* cached state in the order they were made, so it holds one message more than
\* the transitions made (1 + 2N when N threads each did StartTask and EndTask),
\* and recovery from GetMessages gives the cached state.
C13_LogStateCoherence ==
    Quiescent =>
        /\ getMessagesResult(sagas, ThisSaga) = <<StartMsg>> \o trans
        /\ Len(getMessagesResult(sagas, ThisSaga)) = 1 + Len(trans)
        /\ RecoversTo(RecoverSagaState(sagas, ThisSaga), state)

\* both threads did StartTask then EndTask on their own task, interleaved, and
\* the log holds 1 + 2 * 2 messages
C13_Witness ==
    /\ Quiescent
    /\ Len(sagas[ThisSaga]) = 5
    /\ Len(trans) = 4
    /\ trans[1].msgType = "StartTask" /\ trans[1].taskId = OwnTask["th1"]
    /\ trans[2].msgType = "StartTask" /\ trans[2].taskId = OwnTask["th2"]
    /\ trans[3].msgType = "EndTask" /\ trans[3].taskId = OwnTask["th2"]
    /\ trans[4].msgType = "EndTask" /\ trans[4].taskId = OwnTask["th1"]
    /\ \A th \in Threads : IsTaskCompleted(state, OwnTask[th])

\* C14: an operation of the Saga that updateSagaState rejects returns the
\* error, makes no call of the log, appends nothing and leaves the cached
\* state as it was; an EndTask for a task never started is rejected, and when
\* it follows StartSaga directly GetMessages still has length 1.
C14_RejectedNoLog ==
    [][\A th \in Threads :
          /\ (sagaPc[th] = "update" /\ sagaPc'[th] = "idle") =>
                /\ sagaRet'.err # NoErr
                /\ sagaRet'.msg = msg
                /\ sagas' = sagas
                /\ thr' = thr
                /\ state' = state
                /\ trans' = trans
                /\ trans = <<>> => Len(getMessagesResult(sagas', ThisSaga)) = 1
          /\ (/\ sagaPc[th] = "update"
              /\ msg.msgType = "EndTask"
              /\ ~IsTaskStarted(state, msg.taskId)
              /\ sagaPc'[th] # "update")
             => /\ sagaPc'[th] = "idle"
                /\ sagaRet'.err.kind = "InvalidSagaState"]_vars

\* right after StartSaga an EndTask for a task never started was rejected and
\* the log holds one message
C14_Witness ==
    /\ Quiescent
    /\ trans = <<>>
    /\ sagaRet.msg.msgType = "EndTask"
    /\ sagaRet.err.kind = "InvalidSagaState"
    /\ Len(getMessagesResult(sagas, ThisSaga)) = 1
    /\ state = makeSagaState(ThisSaga, ThisJob).state

\* C15: when updateSagaState accepted and LogMessage returns an error, the
\* operation returns that error and the cached state, the log and the
\* transitions made stay as they were, so the next operation is validated
\* against the state before the attempt; and when the same operation, retried
\* at once, succeeds, the log and the cached state agree.
C15_LogFailure ==
    [][\A th \in Threads :
          /\ (/\ sagaPc[th] = "logging"
              /\ thr[th].pc = "ret"
              /\ thr[th].err # NoErr
              /\ sagaPc'[th] = "idle")
             => /\ sagaRet'.err = thr[th].err
                /\ state' = state
                /\ sagas' = sagas
                /\ trans' = trans
          /\ (sagaRet'.retry /\ ~sagaRet.retry) =>
                /\ getMessagesResult(sagas', ThisSaga) = <<StartMsg>> \o trans'
                /\ trans' = Append(trans, sagaRet.msg)
                /\ RecoversTo(RecoverSagaState(sagas', ThisSaga), state')
                /\ state' \in {r.state : r \in {q \in updateSagaState(state, sagaRet.msg) :
                                                  q.err = NoErr}}]_vars

\* an operation that failed in the log was retried and succeeded
C15_Witness ==
    /\ sagaRet.retry
    /\ Quiescent
    /\ state # makeSagaState(ThisSaga, ThisJob).state

---------------------------------------------------------------------------
(* updateSagaState on pointers (SpecHeap) *)

\* the addresses of the maps and of the taskData records of the state behind
\* pointer p
Mutable(h, p) ==
    LET st == h[p].v
    IN  {st.taskState, st.taskData} \cup {h[st.taskData].v[key] : key \in DOMAIN h[st.taskData].v}

\* the pointers the calls made so far returned, nil left out
ReturnedPtrs == {hp.out[i].ptr : i \in 1..Len(hp.out)} \ {NilPtr}

\* the state handed to updateSagaState is as it was before the calls: every
\* object that existed then, so its taskState map, its taskData map and each
\* of its taskData records, is unchanged
InputUnchanged ==
    /\ \A a \in 1..Len(allocState(<<>>, state).heap) : heap[a] = allocState(<<>>, state).heap[a]
    /\ load(heap, hp.in) = state

\* a returned state shares no map and no taskData record with the input
NoSharedMutable ==
    \A p \in ReturnedPtrs : p # hp.in /\ Mutable(heap, p) \cap Mutable(heap, hp.in) = {}

\* two successive calls returned equal results: the same error, and on
\* acceptance equal states
EqualResults ==
    Len(hp.out) = 2 =>
        /\ hp.out[1].err = hp.out[2].err
        /\ hp.out[1].ptr # NilPtr =>
              /\ hp.out[2].ptr # NilPtr
              /\ load(heap, hp.out[1].ptr) = load(heap, hp.out[2].ptr)

\* C11: updateSagaState never mutates the state it is given, accepting or
\* rejecting: the taskState map, the taskData map and every taskData record of
\* the input are the same before and after the call, the returned state shares
\* no map and no record with the input, and two successive calls with the same
\* state and message give equal results.
C11_Purity == InputUnchanged /\ NoSharedMutable /\ EqualResults

\* the part of C11 about the input and the returned state alone
C11_NoMutation == InputUnchanged /\ NoSharedMutable

---------------------------------------------------------------------------
(* Terminal states, data and progress of a saga made by makeSagaState      *)
(* (Spec)                                                                  *)

\* the record of data of task t in state s, the empty record when t has none
DataOf(s, t) == MapGet(s.taskData, t, EmptyTaskData)

\* the blob of a record of data that a message type writes
BlobOf(tData, msgType) ==
    CASE msgType = "StartTask"     -> tData.taskStart
      [] msgType = "EndTask"       -> tData.taskEnd
      [] msgType = "StartCompTask" -> tData.compTaskStart
      [] msgType = "EndCompTask"   -> tData.compTaskEnd

\* C21: in a reachable state with sagaCompleted true, AbortSaga and the four
\* task messages are rejected, and a message that is accepted (EndSaga once
\* more) returns a state equal to the input in sagaId, job, taskState, taskData,
\* sagaAborted and sagaCompleted: no message changes a completed saga.
C21_CompletedTerminal ==
    (state.sagaCompleted /\ msg # NoMsg) =>
        /\ msg.msgType \in TaskMsgTypes \cup {"AbortSaga"} => ~IsAccepted
        /\ IsAccepted => /\ msg.msgType = "EndSaga"
                         /\ res.state = state

\* EndSaga was accepted once more for a completed saga that has a task
C21_Witness ==
    /\ state.sagaCompleted
    /\ DOMAIN state.taskState # {}
    /\ SagaCall("EndSaga")
    /\ IsAccepted
    /\ res.state.sagaCompleted

\* C22: an accepted task message for task t that carries data stores the data
\* in the blob of t of its type and leaves the other three blobs of t and the
\* data of every other task as they were; an accepted task message without
\* data leaves taskData as it was; no accepted message changes sagaId or job.
C22_DataFrame ==
    (msg # NoMsg /\ IsAccepted) =>
        /\ res.state.sagaId = state.sagaId
        /\ res.state.job = state.job
        /\ (msg.msgType \in TaskMsgTypes /\ msg.data = Nil) =>
              res.state.taskData = state.taskData
        /\ msg.msgType \notin TaskMsgTypes => res.state.taskData = state.taskData
        /\ (msg.msgType \in TaskMsgTypes /\ msg.data # Nil) =>
              /\ DOMAIN res.state.taskData = DOMAIN state.taskData \cup {msg.taskId}
              /\ BlobOf(res.state.taskData[msg.taskId], msg.msgType) = msg.data
              /\ \A ty \in TaskMsgTypes \ {msg.msgType} :
                    BlobOf(res.state.taskData[msg.taskId], ty) =
                        BlobOf(DataOf(state, msg.taskId), ty)
              /\ \A t \in DOMAIN state.taskData \ {msg.taskId} :
                    res.state.taskData[t] = state.taskData[t]

\* an EndTask with data was accepted for a task that has start data and no end
\* data, next to another task with data
C22_Witness ==
    /\ TaskCall("EndTask")
    /\ IsAccepted
    /\ msg.data # Nil
    /\ DataOf(state, msg.taskId).taskStart # Nil
    /\ DataOf(state, msg.taskId).taskEnd = Nil
    /\ \E t \in DOMAIN state.taskData : t # msg.taskId
    /\ res.state.taskData[msg.taskId].taskEnd = msg.data
    /\ res.state.taskData[msg.taskId].taskStart = DataOf(state, msg.taskId).taskStart

\* C23: when a message is accepted in a reachable state of an aborted saga, the
\* returned state has the same task ids in taskState, the same TaskStarted and
\* TaskCompleted flags for each, the same taskStart and taskEnd data, and is
\* still aborted: only CompTaskStarted, CompTaskCompleted, the compensation
\* data and sagaCompleted can differ.
C23_AbortFreezesForward ==
    (state.sagaAborted /\ msg # NoMsg /\ IsAccepted) =>
        /\ DOMAIN res.state.taskState = DOMAIN state.taskState
        /\ \A t \in DOMAIN state.taskState : \A bit \in {TaskStarted, TaskCompleted} :
              Flag(res.state, t, bit) <=> Flag(state, t, bit)
        /\ \A t \in DOMAIN res.state.taskData \cup DOMAIN state.taskData :
              /\ DataOf(res.state, t).taskStart = DataOf(state, t).taskStart
              /\ DataOf(res.state, t).taskEnd = DataOf(state, t).taskEnd
        /\ res.state.sagaAborted
        /\ res.state.sagaId = state.sagaId
        /\ res.state.job = state.job

\* in an aborted saga with a completed task and a task only started, a
\* StartCompTask with data was accepted for the task only started
C23_Witness ==
    /\ state.sagaAborted
    /\ TaskCall("StartCompTask")
    /\ IsAccepted
    /\ msg.data # Nil
    /\ msg.taskId \in DOMAIN state.taskState
    /\ state.taskState[msg.taskId] = TaskStarted
    /\ \E t \in DOMAIN state.taskState : Flag(state, t, TaskCompleted)
    /\ res.state.taskState[msg.taskId] = TaskStarted + CompTaskStarted

\* the sequences that hold each element of S once
Orders(S) ==
    {seq \in [1..Cardinality(S) -> S] : \A x \in S : \E i \in DOMAIN seq : seq[i] = x}

\* the tasks a saga in state s still has to end, or to compensate when it is
\* aborted
Pending(s) ==
    IF s.sagaAborted
    THEN {t \in DOMAIN s.taskState : ~Flag(s, t, CompTaskCompleted)}
    ELSE {t \in DOMAIN s.taskState : Flag(s, t, TaskStarted) /\ ~Flag(s, t, TaskCompleted)}

\* the messages that end (not aborted) or compensate (aborted) task t
ClosingOf(s, t) ==
    IF s.sagaAborted
    THEN <<Message(s.sagaId, "StartCompTask", t, Nil), Message(s.sagaId, "EndCompTask", t, Nil)>>
    ELSE <<Message(s.sagaId, "EndTask", t, Nil)>>

\* the messages of the tasks of order, one task after the other, then EndSaga
RECURSIVE Closing(_, _)
Closing(s, order) ==
    IF order = <<>> THEN <<Message(s.sagaId, "EndSaga", "", Nil)>>
    ELSE ClosingOf(s, Head(order)) \o Closing(s, Tail(order))

\* the outcomes of handing msgs to updateSagaState one after the other from
\* state s, each on the state the one before returned, up to the first
\* rejection
RECURSIVE AfterAll(_, _)
AfterAll(s, msgs) ==
    IF msgs = <<>> THEN {Accepted(s)}
    ELSE UNION {IF r.err = NoErr THEN AfterAll(r.state, Tail(msgs)) ELSE {r} :
                   r \in updateSagaState(s, Head(msgs))}

\* C24: from every reachable state with sagaCompleted false, a finite sequence
\* of accepted messages leads to sagaCompleted true: when the saga is not
\* aborted, EndTask for every task started and not completed, in any order,
\* then EndSaga; when it is aborted, StartCompTask then EndCompTask for every
\* task without CompTaskCompleted, in any order, then EndSaga.  Every message
\* of the sequence is accepted.  (Read between two calls: every state the saga
\* reaches is there with no call in progress.)
C24_NotStuck ==
    (msg = NoMsg /\ ~state.sagaCompleted) =>
        \A order \in Orders(Pending(state)) :
            \A r \in AfterAll(state, Closing(state, order)) :
                r.err = NoErr /\ r.state.sagaCompleted

\* an aborted saga, not completed, with a completed task and a task whose
\* compensation has started, both to compensate: five messages complete it
C24_Witness ==
    /\ msg = NoMsg
    /\ state.sagaAborted
    /\ ~state.sagaCompleted
    /\ Cardinality(Pending(state)) = 2
    /\ \E t \in Pending(state) : state.taskState[t] = TaskStarted + TaskCompleted
    /\ \E t \in Pending(state) : state.taskState[t] = TaskStarted + CompTaskStarted
    /\ \E order \in Orders(Pending(state)) :
          /\ Len(Closing(state, order)) = 5
          /\ \E r \in AfterAll(state, Closing(state, order)) :
                r.err = NoErr /\ r.state.sagaCompleted

====
